---- MODULE Spec2Model ----
(***************************************************************************)
(* A model of the FastCGI client of fastcgi-client-rs:                     *)
(*   src/src/client.rs  Client::execute, handle_new_request,               *)
(*                      handle_response, handle_fastcgi_request,           *)
(*                      handle_fastcgi_response                            *)
(*   src/src/meta.rs    Header, BeginRequest, ProtocolStatus               *)
(* The request-id allocator (crate::id::RequestIdGenerator), the record    *)
(* reader (Header::new_from_stream, read_content_from_stream,              *)
(* EndRequestRec::from_header) and ProtocolStatus::convert_to_client_result*)
(* are called by client.rs but their code is not part of the sources; they *)
(* are modelled from sections 4.1, 4.4 and 4.5 of the specification.       *)
(*                                                                         *)
(* Byte strings that come from a request source (the parameter blob, the   *)
(* body) are modelled by position: a record carries the offset of its      *)
(* first content byte in the source and its content length.  Byte strings  *)
(* received from the peer are explicit sequences of bytes.                 *)
(***************************************************************************)
EXTENDS Integers, Sequences, FiniteSets, TLC

VARIABLES
    keep_alive,     \* Client.keep_alive
    timeout,        \* RequestIdGenerator timeout in ms, set by Client::new
    inUse,          \* allocator: the ids that are allocated and not released
    granted,        \* per id, the number of grants that were not released
    op,             \* the Client method in progress: "none", "execute", "generate_id"
    pc,             \* position inside that method
    id,             \* the id allocated by the call in progress (0: none)
    elapsed,        \* ms the pending alloc() has been suspended
    inUseAtCall,    \* inUse when the call in progress started
    params_len,     \* length of ParamPairs::to_content() of the request
    body_len,       \* length of the request body
    body_pos,       \* bytes of the body consumed so far
    wire,           \* records written to the stream by this call, in order
    flushed,        \* the stream was flushed by this call
    nreads,         \* number of reads from the stream by this call
    rx,             \* records received from the peer by this call, in order
    hdr,            \* the header being handled by the response loop
    content,        \* the content read for hdr
    stdout,         \* bytes accepted by the stdout sink during this call
    stderr,         \* bytes accepted by the stderr sink during this call
    fault,          \* the failures of the stream, the body and the sinks in this call
    rv,             \* result computed, not yet returned
    result          \* result returned by the last call

vars == <<keep_alive, timeout, inUse, granted, op, pc, id, elapsed,
          inUseAtCall, params_len, body_len, body_pos, wire, flushed, nreads,
          rx, hdr, content, stdout, stderr, fault, rv, result>>

(***************************************************************************)
(* Bounds of the model.                                                    *)
(***************************************************************************)
PoolSize == 2       \* ids of the pool that the model uses: 1..PoolSize
TickMs == 500       \* granularity of the clock of a suspended alloc()
MaxElapsed == 2000  \* the clock of a suspended alloc() stops here
MaxRx == 2          \* Stdout/Stderr records the peer sends in one exchange

(***************************************************************************)
(* Program constants.                                                      *)
(***************************************************************************)
VERSION_1 == 1
MAX_LENGTH == 65535
MaxRequestId == 65535
ClientNewTimeoutMs_Never == MaxElapsed * 1000

ClientNewTimeoutMs == 1500

Min(a, b) == IF a < b THEN a ELSE b

IDs == 1..Min(PoolSize, MaxRequestId)

RequestTypes == {"BeginRequest", "AbortRequest", "EndRequest", "Params",
                 "Stdin", "Stdout", "Stderr", "Data", "GetValues",
                 "GetValuesResult"}

ProtocolStatuses == {"RequestComplete", "CantMpxConn", "Overloaded", "UnknownRole"}

\* Inputs of the model.
ParamsLens == {0, 4}
BodyLens == {0, MAX_LENGTH + 1, 2 * MAX_LENGTH + 1}
\* The content of the k-th record of a response: none, or two bytes.
Contents(k) == {<<>>, <<k, k + 10>>}
AppStatuses == {0, 1}

NoHeader == [type |-> "None", request_id |-> 0, content |-> <<>>]
NoResult == [kind |-> "None"]

(***************************************************************************)
(* meta.rs: Header::new.  The padding is computed on the content length    *)
(* cast to i16, negated (wrapping at -32768) and masked with 7.            *)
(***************************************************************************)
AsI16(n) == IF n >= 32768 THEN n - 65536 ELSE n

WrappingNegI16(n) == IF n = -32768 THEN -32768 ELSE -n

PaddingLength(content_length) == WrappingNegI16(AsI16(content_length)) % 8

HeaderNew(type, request_id, len) ==
    LET content_length == Min(len, MAX_LENGTH)
    IN  [version |-> VERSION_1,
         type |-> type,
         request_id |-> request_id,
         content_length |-> content_length,
         padding_length |-> PaddingLength(content_length),
         reserved |-> 0]

(***************************************************************************)
(* meta.rs: BeginRequest::new and BeginRequest::to_content.                *)
(***************************************************************************)
RoleValue(role) ==
    CASE role = "Responder" -> 1
      [] role = "Authorizer" -> 2
      [] role = "Filter" -> 3

BeginRequestNew(role, ka) ==
    [role |-> role, flags |-> IF ka THEN 1 ELSE 0, reserved |-> <<0, 0, 0, 0, 0>>]

BeginRequestToContent_LE(br) ==
    <<RoleValue(br.role) % 256, RoleValue(br.role) \div 256, br.flags>> \o br.reserved

BeginRequestToContent(br) ==
    <<RoleValue(br.role) \div 256, RoleValue(br.role) % 256, br.flags>> \o br.reserved

(***************************************************************************)
(* meta.rs: Header::write_to_stream.  Three write_all calls: the header,   *)
(* the content, the padding.  The results of the first two are propagated; *)
(* the result of the third is dropped.  fail names the write the stream    *)
(* rejects ("none": it accepts all three).  A write_all of no bytes cannot *)
(* be rejected.                                                            *)
(***************************************************************************)
TypeValue(type) ==
    CASE type = "BeginRequest" -> 1
      [] type = "AbortRequest" -> 2
      [] type = "EndRequest" -> 3
      [] type = "Params" -> 4
      [] type = "Stdin" -> 5
      [] type = "Stdout" -> 6
      [] type = "Stderr" -> 7
      [] type = "Data" -> 8
      [] type = "GetValues" -> 9
      [] type = "GetValuesResult" -> 10

\* The eight bytes that write_to_stream builds from a header.
HeaderToBytes(h) ==
    <<h.version, TypeValue(h.type),
      h.request_id \div 256, h.request_id % 256,
      h.content_length \div 256, h.content_length % 256,
      h.padding_length, h.reserved>>

WriteFailures(h) ==
    {"none", "header"}
        \cup (IF h.content_length > 0 THEN {"content"} ELSE {})
        \cup (IF h.padding_length > 0 THEN {"padding"} ELSE {})

WriteToStreamOk(fail) == fail \notin {"header", "content"}

WriteToStreamWire(w, h, from, bytes, fail) ==
    IF fail = "header"
    THEN w
    ELSE Append(w, [header |-> HeaderToBytes(h),
                    type |-> h.type,
                    request_id |-> h.request_id,
                    content_length |-> h.content_length,
                    padding_length |-> h.padding_length,
                    from |-> from,
                    bytes |-> bytes,
                    written |-> CASE fail = "content" -> "header"
                                  [] fail = "padding" -> "content"
                                  [] OTHER -> "all"])

(***************************************************************************)
(* meta.rs: Header::write_to_stream_batches.  One read of at most          *)
(* MAX_LENGTH bytes from the source, then one record with what was read.   *)
(* The sources of the model hand over as many bytes as the buffer takes.   *)
(***************************************************************************)
Readed(remaining) == Min(remaining, MAX_LENGTH)

IoError == [kind |-> "Err", error |-> "Io"]

\* The failures of the environment during a call are remembered.
Fault(old, new) == IF new = "none" THEN old ELSE old \cup {new}

(***************************************************************************)
(* crate::id::RequestIdGenerator, modelled from section 4.4 of the         *)
(* specification: alloc grants an id that is free, or suspends until the   *)
(* timeout elapses when none is; release returns the id to the free set.   *)
(***************************************************************************)
AllocCandidates_All(used) == IDs

AllocCandidates(used) == IDs \ used

AllocMark(used, i) == used \cup {i}

ReleaseId(used, i) == used \ {i}

Granted(g, i) == [g EXCEPT ![i] = @ + 1]

Ungranted(g, i) == [g EXCEPT ![i] = IF @ > 0 THEN @ - 1 ELSE 0]

TimeoutError == [kind |-> "Err", error |-> "RequestIdGenerateTimeout"]

(***************************************************************************)
(* ProtocolStatus::convert_to_client_result, modelled from section 4.5     *)
(* step 4 of the specification.  The success value is the unit value.      *)
(***************************************************************************)
ConvertToClientResult(protocol_status, app_status) ==
    CASE protocol_status = "RequestComplete" -> [kind |-> "Ok"]
      [] protocol_status = "CantMpxConn" ->
            [kind |-> "Err", error |-> "EndRequestCantMpxConn", app_status |-> app_status]
      [] protocol_status = "Overloaded" ->
            [kind |-> "Err", error |-> "EndRequestOverloaded", app_status |-> app_status]
      [] protocol_status = "UnknownRole" ->
            [kind |-> "Err", error |-> "EndRequestUnknownRole", app_status |-> app_status]

(***************************************************************************)
(* Init: the state after Client::new(stream, keep_alive).                  *)
(***************************************************************************)
Init ==
    /\ keep_alive \in BOOLEAN
    /\ timeout = ClientNewTimeoutMs
    /\ inUse = {}
    /\ granted = [i \in IDs |-> 0]
    /\ op = "none"
    /\ pc = "idle"
    /\ id = 0
    /\ elapsed = 0
    /\ inUseAtCall = {}
    /\ params_len = 0
    /\ body_len = 0
    /\ body_pos = 0
    /\ wire = <<>>
    /\ flushed = FALSE
    /\ nreads = 0
    /\ rx = <<>>
    /\ hdr = NoHeader
    /\ content = <<>>
    /\ stdout = <<>>
    /\ stderr = <<>>
    /\ fault = {}
    /\ rv = NoResult
    /\ result = NoResult

Quiescent == {"idle", "done", "cancelled"}

\* A call starts: the observations of the previous call are forgotten.
StartCall(method, p, b) ==
    /\ pc \in Quiescent
    /\ op' = method
    /\ pc' = "alloc"
    /\ id' = 0
    /\ elapsed' = 0
    /\ inUseAtCall' = inUse
    /\ params_len' = p
    /\ body_len' = b
    /\ body_pos' = 0
    /\ wire' = <<>>
    /\ flushed' = FALSE
    /\ nreads' = 0
    /\ rx' = <<>>
    /\ hdr' = NoHeader
    /\ content' = <<>>
    /\ stdout' = <<>>
    /\ stderr' = <<>>
    /\ fault' = {}
    /\ rv' = NoResult
    /\ result' = NoResult
    /\ UNCHANGED <<keep_alive, timeout, inUse, granted>>

\* client.rs: Client::execute is called with a request and two fresh sinks.
Execute == \E p \in ParamsLens, b \in BodyLens : StartCall("execute", p, b)

\* client.rs: Client::generate_id is called.
GenerateId == StartCall("generate_id", 0, 0)

\* alloc(): a free id exists and is granted.
AllocGrant ==
    /\ pc = "alloc"
    /\ \E i \in AllocCandidates(inUse) :
          /\ inUse' = AllocMark(inUse, i)
          /\ granted' = Granted(granted, i)
          /\ id' = i
          /\ IF op = "execute"
             THEN pc' = "begin" /\ result' = result
             ELSE pc' = "done" /\ result' = [kind |-> "Ok", id |-> i]
    /\ UNCHANGED <<keep_alive, timeout, op, elapsed, inUseAtCall, params_len,
                   body_len, body_pos, wire, flushed, nreads, rx, hdr, content,
                   stdout, stderr, fault, rv>>

\* alloc(): no id is free, the caller stays suspended while time passes.
AllocTick ==
    /\ pc = "alloc"
    /\ AllocCandidates(inUse) = {}
    /\ elapsed < timeout
    /\ elapsed < MaxElapsed
    /\ elapsed' = elapsed + TickMs
    /\ UNCHANGED <<keep_alive, timeout, inUse, granted, op, pc, id, inUseAtCall,
                   params_len, body_len, body_pos, wire, flushed, nreads, rx,
                   hdr, content, stdout, stderr, fault, rv, result>>

\* client.rs: `alloc().await?` in handle_new_request and the `?` of execute,
\* the plain return of generate_id: the caller gets the error of alloc().
OnAllocError_Proceeds(method) == IF method = "execute" THEN "begin" ELSE "done"

OnAllocError(method) == "done"

\* alloc(): the timeout has elapsed, the call fails.
AllocTimeout ==
    /\ pc = "alloc"
    /\ AllocCandidates(inUse) = {}
    /\ elapsed >= timeout
    /\ pc' = OnAllocError(op)
    /\ result' = TimeoutError
    /\ UNCHANGED <<keep_alive, timeout, inUse, granted, op, id, elapsed,
                   inUseAtCall, params_len, body_len, body_pos, wire, flushed,
                   nreads, rx, hdr, content, stdout, stderr, fault, rv>>

(***************************************************************************)
(* client.rs: handle_fastcgi_request.  Every step is one call that writes  *)
(* to the stream; a failure goes to the Err arm of handle_new_request.     *)
(***************************************************************************)
\* The order of the calls of handle_fastcgi_request, and where execute goes
\* when handle_new_request has returned Ok(id).
NextStep_StdinFirst(step) ==
    CASE step = "begin" -> "stdin"
      [] step = "stdin" -> "stdin_end"
      [] step = "stdin_end" -> "params"
      [] step = "params" -> "params_end"
      [] step = "params_end" -> "flush"
      [] step = "flush" -> "read_header"

NextStep(step) ==
    CASE step = "begin" -> "params"
      [] step = "params" -> "params_end"
      [] step = "params_end" -> "stdin"
      [] step = "stdin" -> "stdin_end"
      [] step = "stdin_end" -> "flush"
      [] step = "flush" -> "read_header"

ReqUnchanged == <<keep_alive, timeout, inUse, granted, op, id, elapsed,
                  inUseAtCall, params_len, body_len, flushed, nreads, rx, hdr,
                  content, stdout, stderr, result>>

\* Header::write_to_stream on the client's stream, followed by `?`.
WriteRecord(h, from, bytes, next) ==
    \E fail \in WriteFailures(h) :
        /\ wire' = WriteToStreamWire(wire, h, from, bytes, fail)
        /\ fault' = Fault(fault, IF fail = "none" THEN "none" ELSE "write")
        /\ IF WriteToStreamOk(fail)
           THEN pc' = next /\ rv' = rv
           ELSE pc' = "release_new" /\ rv' = IoError

\* Header::write_to_stream_batches on a source with `remaining` bytes left,
\* the next of which is at offset `from`.
WriteToStreamBatches_NoId(type, request_id, remaining, from, next) ==
    WriteRecord(HeaderNew(type, 0, Readed(remaining)), from, <<>>, next)

WriteToStreamBatches(type, request_id, remaining, from, next) ==
    WriteRecord(HeaderNew(type, request_id, Readed(remaining)), from, <<>>, next)

\* BeginRequestRec::new(id, Role::Responder, keep_alive) and write_to_stream.
WriteBeginRequest ==
    /\ pc = "begin"
    /\ LET c == BeginRequestToContent(BeginRequestNew("Responder", keep_alive))
       IN  WriteRecord(HeaderNew("BeginRequest", id, Len(c)), 0, c, NextStep("begin"))
    /\ UNCHANGED <<ReqUnchanged, body_pos>>

\* The parameter blob, an in-memory slice.
WriteParams ==
    /\ pc = "params"
    /\ WriteToStreamBatches("Params", id, params_len, 0, NextStep("params"))
    /\ UNCHANGED <<ReqUnchanged, body_pos>>

\* "this empty record marks the end of the Params-stream": tokio::io::empty().
WriteParamsEnd ==
    /\ pc = "params_end"
    /\ WriteToStreamBatches("Params", id, 0, 0, NextStep("params_end"))
    /\ UNCHANGED <<ReqUnchanged, body_pos>>

\* The body, a reader supplied by the caller: its read may fail.
WriteStdin ==
    /\ pc = "stdin"
    /\ \/ /\ WriteToStreamBatches("Stdin", id, body_len - body_pos, body_pos, NextStep("stdin"))
          /\ body_pos' = body_pos + Readed(body_len - body_pos)
       \/ /\ pc' = "release_new"
          /\ rv' = IoError
          /\ fault' = Fault(fault, "body_read")
          /\ UNCHANGED <<wire, body_pos>>
    /\ UNCHANGED ReqUnchanged

\* "this empty record marks the end of the Stdin-stream": tokio::io::empty().
WriteStdinEnd ==
    /\ pc = "stdin_end"
    /\ WriteToStreamBatches("Stdin", id, 0, 0, NextStep("stdin_end"))
    /\ UNCHANGED <<ReqUnchanged, body_pos>>

\* write_stream.flush(); then handle_new_request returns Ok(id) and execute
\* enters handle_response.
Flush ==
    /\ pc = "flush"
    /\ \E ok \in BOOLEAN :
          IF ok
          THEN pc' = NextStep("flush") /\ flushed' = TRUE /\ rv' = rv /\ fault' = fault
          ELSE /\ pc' = "release_new" /\ flushed' = flushed /\ rv' = IoError
               /\ fault' = Fault(fault, "flush")
    /\ UNCHANGED <<keep_alive, timeout, inUse, granted, op, id, elapsed,
                   inUseAtCall, params_len, body_len, body_pos, wire, nreads,
                   rx, hdr, content, stdout, stderr, result>>

\* client.rs: the Err arm of handle_new_request releases the id and returns.
HandleNewRequestRelease_Forgot(used, i) == used

HandleNewRequestRelease(used, i) == ReleaseId(used, i)

ReleaseNewRequest ==
    /\ pc = "release_new"
    /\ inUse' = HandleNewRequestRelease(inUse, id)
    /\ granted' = IF inUse' # inUse THEN Ungranted(granted, id) ELSE granted
    /\ result' = rv
    /\ pc' = "done"
    /\ UNCHANGED <<keep_alive, timeout, op, id, elapsed, inUseAtCall,
                   params_len, body_len, body_pos, wire, flushed, nreads, rx,
                   hdr, content, stdout, stderr, fault, rv>>

(***************************************************************************)
(* client.rs: handle_fastcgi_response.  The peer's records are inputs: the *)
(* type, the request id, the content of a Stdout/Stderr record and the     *)
(* payload of an EndRequest record are drawn from small sets.              *)
(***************************************************************************)
OtherId(i) == IF i = MaxRequestId THEN 1 ELSE i + 1

DataTypes == {"Stdout", "Stderr"}

PeerRecords(i, k) ==
    { [type |-> t, request_id |-> r, content |-> c, app_status |-> a,
       protocol_status |-> s] :
        t \in RequestTypes, r \in {i, OtherId(i)}, c \in Contents(k),
        a \in AppStatuses, s \in ProtocolStatuses }

PeerRecord(i, k, room) ==
    { h \in PeerRecords(i, k) :
        /\ h.type \in DataTypes => room
        /\ (h.type = "EndRequest" \/ h.request_id # i) => h.content = <<>>
        /\ (h.type # "EndRequest" \/ h.request_id # i) =>
               (h.app_status = 0 /\ h.protocol_status = "RequestComplete") }

NumData(records) == Cardinality({k \in 1..Len(records) : records[k].type \in DataTypes})

ResponseNotFound(i) == [kind |-> "Err", error |-> "ResponseNotFound", id |-> i]

UnknownRequestType(t) == [kind |-> "Err", error |-> "UnknownRequestType", request_type |-> t]

UnexpectedEndOfOutput(i, t, written, expected) ==
    [kind |-> "Err", error |-> "UnexpectedEndOfOutput", id |-> i,
     output_type |-> t, written |-> written, expected |-> expected]

\* The check of the request id of a header, before the dispatch on its type.
IdMismatch_DataOnly(h, i) == h.request_id # i /\ h.type \in DataTypes

IdMismatch(h, i) == h.request_id # i

\* The dispatch on the type of a header that carries the call's id.
Dispatch_DataAsStdout(t) ==
    CASE t = "Stdout" -> "read_content"
      [] t = "Stderr" -> "read_content"
      [] t = "Data" -> "read_content"
      [] t = "EndRequest" -> "read_end"
      [] OTHER -> "unknown"

Dispatch(t) ==
    CASE t = "Stdout" -> "read_content"
      [] t = "Stderr" -> "read_content"
      [] t = "EndRequest" -> "read_end"
      [] OTHER -> "unknown"

RespUnchanged == <<keep_alive, timeout, inUse, granted, op, id, elapsed,
                   inUseAtCall, params_len, body_len, body_pos, wire, flushed,
                   result>>

\* Header::new_from_stream(read_stream) followed by `?`, the id check and
\* the match on the type.
ReadHeader ==
    /\ pc = "read_header"
    /\ nreads' = nreads + 1
    /\ \/ /\ pc' = "release_resp"
          /\ rv' = IoError
          /\ fault' = Fault(fault, "read")
          /\ UNCHANGED <<rx, hdr>>
       \/ \E h \in PeerRecord(id, Len(rx) + 1, NumData(rx) < MaxRx) :
             /\ fault' = fault
             /\ rx' = Append(rx, h)
             /\ hdr' = h
             /\ IF IdMismatch(h, id)
                THEN pc' = "release_resp" /\ rv' = ResponseNotFound(id)
                ELSE IF Dispatch(h.type) = "unknown"
                     THEN pc' = "release_resp" /\ rv' = UnknownRequestType(h.type)
                     ELSE pc' = Dispatch(h.type) /\ rv' = rv
    /\ UNCHANGED <<RespUnchanged, content, stdout, stderr>>

\* header.read_content_from_stream(read_stream) followed by `?`.
ReadContent ==
    /\ pc = "read_content"
    /\ nreads' = nreads + 1
    /\ \/ pc' = "write_sink" /\ content' = hdr.content /\ rv' = rv /\ fault' = fault
       \/ /\ pc' = "release_resp" /\ content' = content /\ rv' = IoError
          /\ fault' = Fault(fault, "read")
    /\ UNCHANGED <<RespUnchanged, rx, hdr, stdout, stderr>>

\* The sink of a record type, and what it holds after accepting n bytes.
SinkAppend_Prepend(sink, bytes, n) == SubSeq(bytes, 1, n) \o sink

SinkAppend(sink, bytes, n) == sink \o SubSeq(bytes, 1, n)

SinkResult_Swapped(i, t, written, expected) ==
    IF expected # written
    THEN UnexpectedEndOfOutput(i, t, expected, written)
    ELSE [kind |-> "Ok"]

SinkResult_EmptyEnds(i, t, written, expected) ==
    IF expected # written \/ expected = 0
    THEN UnexpectedEndOfOutput(i, t, written, expected)
    ELSE [kind |-> "Ok"]

SinkResult(i, t, written, expected) ==
    IF expected # written
    THEN UnexpectedEndOfOutput(i, t, written, expected)
    ELSE [kind |-> "Ok"]

\* AsyncWriteExt::write(sink, content) followed by `?` and the length check.
WriteSink ==
    /\ pc = "write_sink"
    /\ \/ /\ pc' = "release_resp"
          /\ rv' = IoError
          /\ fault' = Fault(fault, "sink_error")
          /\ UNCHANGED <<stdout, stderr>>
       \/ \E n \in 0..Len(content) :
             /\ fault' = Fault(fault, IF n = Len(content) THEN "none" ELSE "sink_short")
             /\ IF hdr.type = "Stdout"
                THEN stdout' = SinkAppend(stdout, content, n) /\ stderr' = stderr
                ELSE stderr' = SinkAppend(stderr, content, n) /\ stdout' = stdout
             /\ LET r == SinkResult(id, hdr.type, n, Len(content))
                IN  IF r.kind = "Err"
                    THEN pc' = "release_resp" /\ rv' = r
                    ELSE pc' = "read_header" /\ rv' = rv
    /\ UNCHANGED <<RespUnchanged, nreads, rx, hdr, content>>

\* The result of the exchange once the loop ended on an EndRequest record.
EndRequestResult_NoAppStatus(end_request) ==
    ConvertToClientResult(end_request.protocol_status, 0)

EndRequestResult(end_request) ==
    ConvertToClientResult(end_request.protocol_status, end_request.app_status)

\* EndRequestRec::from_header(&header, read_stream) followed by `?`, the
\* break out of the loop and the final match.
ReadEndRequest ==
    /\ pc = "read_end"
    /\ nreads' = nreads + 1
    /\ pc' = "release_resp"
    /\ \/ rv' = EndRequestResult(hdr) /\ fault' = fault
       \/ rv' = IoError /\ fault' = Fault(fault, "read")
    /\ UNCHANGED <<RespUnchanged, rx, hdr, content, stdout, stderr>>

\* client.rs: handle_response releases the id and returns the result.
HandleResponseRelease(used, i) == ReleaseId(used, i)

ReleaseResponse ==
    /\ pc = "release_resp"
    /\ inUse' = HandleResponseRelease(inUse, id)
    /\ granted' = IF inUse' # inUse THEN Ungranted(granted, id) ELSE granted
    /\ result' = rv
    /\ pc' = "done"
    /\ UNCHANGED <<keep_alive, timeout, op, id, elapsed, inUseAtCall,
                   params_len, body_len, body_pos, wire, flushed, nreads, rx,
                   hdr, content, stdout, stderr, fault, rv>>

(***************************************************************************)
(* The caller drops the future of the call at a suspension point: nothing  *)
(* of the call runs any more.  client.rs holds the id as a plain u16, no   *)
(* destructor is attached to it.                                           *)
(***************************************************************************)
Suspended == {"alloc", "begin", "params", "params_end", "stdin", "stdin_end",
              "flush", "release_new", "read_header", "read_content",
              "write_sink", "read_end", "release_resp"}

CancelRelease(used, i) == used

Cancel ==
    /\ pc \in Suspended
    /\ pc' = "cancelled"
    /\ inUse' = CancelRelease(inUse, id)
    /\ granted' = IF inUse' # inUse THEN Ungranted(granted, id) ELSE granted
    /\ UNCHANGED <<keep_alive, timeout, op, id, elapsed, inUseAtCall,
                   params_len, body_len, body_pos, wire, flushed, nreads, rx,
                   hdr, content, stdout, stderr, fault, rv, result>>

Next ==
    \/ Execute
    \/ GenerateId
    \/ AllocGrant
    \/ AllocTick
    \/ AllocTimeout
    \/ WriteBeginRequest
    \/ WriteParams
    \/ WriteParamsEnd
    \/ WriteStdin
    \/ WriteStdinEnd
    \/ Flush
    \/ ReleaseNewRequest
    \/ ReadHeader
    \/ ReadContent
    \/ WriteSink
    \/ ReadEndRequest
    \/ ReleaseResponse
    \/ Cancel

Spec == Init /\ [][Next]_vars

NextAlloc ==
    \/ Execute
    \/ GenerateId
    \/ AllocGrant
    \/ AllocTick
    \/ AllocTimeout
    \/ Cancel

\* The allocator's view of the client: calls, grants, dropped calls, and the
\* timer of a suspended alloc(), which runs and fires.
FairSpec == Init /\ [][NextAlloc]_vars /\ WF_vars(AllocTick) /\ WF_vars(AllocTimeout)

TypeOK ==
    /\ keep_alive \in BOOLEAN
    /\ inUse \subseteq IDs
    /\ op \in {"none", "execute", "generate_id"}
    /\ pc \in Quiescent \cup Suspended
    /\ id \in IDs \cup {0}
    /\ body_pos \in 0..body_len

(***************************************************************************)
(* Properties.                                                             *)
(***************************************************************************)
Returned == pc = "done" /\ op = "execute"

\* C1: when a call of execute has returned, whatever its outcome, the id it
\* allocated is released and the set of ids in use is what it was before.
C1_ReleasedOnReturn ==
    Returned => (id \notin inUse /\ inUse = inUseAtCall)

C1_Witness ==
    /\ Returned
    /\ id # 0
    /\ result = IoError
    /\ "write" \in fault
    /\ inUseAtCall # {}

\* C2: when the future of execute is dropped at a suspension point after the
\* id was allocated, the id is released.
C2_ReleasedOnCancel ==
    (pc = "cancelled" /\ op = "execute" /\ id # 0) => id \notin inUse

Exhausted == AllocCandidates(inUse) = {}

\* C4: an alloc() that finds every id in use does not wait forever: it fails
\* with the timeout error (unless its caller drops it), and then the caller
\* holds no id and the set of ids in use is unchanged.
C4_AllocTimeout ==
    /\ (pc = "alloc" /\ Exhausted) ~>
           ((pc = "done" /\ result = TimeoutError) \/ pc = "cancelled")
    /\ []((pc = "done" /\ result = TimeoutError) =>
              (id = 0 /\ inUse = inUseAtCall /\ Exhausted))

C4_Witness ==
    /\ Returned
    /\ result = TimeoutError
    /\ inUse = IDs
    /\ elapsed >= ClientNewTimeoutMs

\* C5: a record header whose request id differs from the allocated id ends
\* the response loop with ResponseNotFound, whatever its type, and the
\* allocated id is released when execute returns.
C5_IdMismatch ==
    \A k \in 1..Len(rx) :
        rx[k].request_id # id =>
            /\ k = Len(rx)
            /\ rv = ResponseNotFound(id)
            /\ pc \in {"release_resp", "done", "cancelled"}
            /\ pc = "done" => (result = ResponseNotFound(id) /\ id \notin inUse)

C5_Witness ==
    /\ Returned
    /\ Len(rx) = 2
    /\ rx[2].type = "EndRequest"
    /\ rx[2].request_id # id
    /\ result = ResponseNotFound(id)

RECURSIVE Concat(_, _)
\* The concatenation of the contents of the records of type t, in order.
Concat(records, t) ==
    IF records = <<>>
    THEN <<>>
    ELSE (IF Head(records).type = t THEN Head(records).content ELSE <<>>)
             \o Concat(Tail(records), t)

\* Stdout and Stderr records that carry the id, then one EndRequest record
\* with RequestComplete.
CompleteResponse(records, i) ==
    /\ Len(records) >= 1
    /\ \A k \in 1..Len(records) : records[k].request_id = i
    /\ \A k \in 1..(Len(records) - 1) : records[k].type \in DataTypes
    /\ records[Len(records)].type = "EndRequest"
    /\ records[Len(records)].protocol_status = "RequestComplete"

Delivered == fault \cap {"read", "sink_error", "sink_short"} = {}

\* C6: for a peer response of Stdout and Stderr records with the allocated
\* id followed by an EndRequest record with RequestComplete, delivered whole
\* to sinks that take every byte, execute succeeds, each sink holds the
\* concatenation of the contents of its records in arrival order, and the id
\* is released.
C6_Demultiplex ==
    (Returned /\ CompleteResponse(rx, id) /\ Delivered) =>
        /\ result = [kind |-> "Ok"]
        /\ stdout = Concat(rx, "Stdout")
        /\ stderr = Concat(rx, "Stderr")
        /\ id \notin inUse

C6_Witness ==
    /\ Returned
    /\ CompleteResponse(rx, id)
    /\ Delivered
    /\ Len(rx) = 3
    /\ rx[1].type = "Stdout" /\ rx[2].type = "Stdout"
    /\ stdout = <<1, 11, 2, 12>>
    /\ result = [kind |-> "Ok"]

Channel(w, t) == SelectSeq(w, LAMBDA r : r.type = t)

NonEmpty(c) == SelectSeq(c, LAMBDA r : r.content_length > 0)

\* Zero or more records with content, then exactly one without.
ChannelShape(c) ==
    /\ Len(c) >= 1
    /\ c[Len(c)].content_length = 0
    /\ \A k \in 1..(Len(c) - 1) : c[k].content_length > 0

\* C7: the records of each channel (Params, Stdin) of a request are zero or
\* more records with content followed by exactly one zero-length record.
C7_OneTerminator ==
    flushed => (ChannelShape(Channel(wire, "Params")) /\ ChannelShape(Channel(wire, "Stdin")))

\* The records carry consecutive pieces of a source of n bytes, all of it.
Reconstructs(c, n) ==
    /\ Len(c) >= 1
    /\ c[1].from = 0
    /\ \A k \in 1..(Len(c) - 1) : c[k + 1].from = c[k].from + c[k].content_length
    /\ c[Len(c)].from + c[Len(c)].content_length = n

\* C8: a body of 65535*k + r bytes (k >= 1, 0 < r < 65535) is written as
\* k+1 records with content, each of at most 65535 bytes, and one empty
\* terminator, and the contents in order are the body.
C8_Chunking ==
    (flushed /\ body_len > MAX_LENGTH /\ body_len % MAX_LENGTH # 0) =>
        LET c == Channel(wire, "Stdin")
            ne == NonEmpty(c)
        IN  /\ Len(ne) = (body_len \div MAX_LENGTH) + 1
            /\ \A k \in 1..Len(ne) : ne[k].content_length <= MAX_LENGTH
            /\ Len(c) = Len(ne) + 1
            /\ c[Len(c)].content_length = 0
            /\ Reconstructs(ne, body_len)

EndedOnEndRequest ==
    /\ Returned
    /\ hdr.type = "EndRequest"
    /\ hdr.request_id = id
    /\ "read" \notin fault

FailureKind(protocol_status) ==
    CASE protocol_status = "CantMpxConn" -> "EndRequestCantMpxConn"
      [] protocol_status = "Overloaded" -> "EndRequestOverloaded"
      [] protocol_status = "UnknownRole" -> "EndRequestUnknownRole"
      [] OTHER -> "None"

\* C9: when the loop ended on an EndRequest record, RequestComplete gives
\* success whatever the app_status, and CantMpxConn, Overloaded, UnknownRole
\* give three distinct failures that carry the received app_status.
C9_ProtocolStatus ==
    EndedOnEndRequest =>
        IF hdr.protocol_status = "RequestComplete"
        THEN result.kind = "Ok"
        ELSE /\ result.kind = "Err"
             /\ result.error = FailureKind(hdr.protocol_status)
             /\ result.app_status = hdr.app_status

C9_Witness ==
    /\ EndedOnEndRequest
    /\ hdr.protocol_status = "Overloaded"
    /\ hdr.app_status = 1
    /\ result = [kind |-> "Err", error |-> "EndRequestOverloaded", app_status |-> 1]

\* C10: the result of a successful execute carries the app_status and the
\* protocol status of the EndRequest record.
C10_ResultCarriesStatus ==
    (Returned /\ result.kind = "Ok") =>
        /\ "app_status" \in DOMAIN result
        /\ result.app_status = hdr.app_status
        /\ "protocol_status" \in DOMAIN result
        /\ result.protocol_status = hdr.protocol_status

(***************************************************************************)
(* meta.rs: Header::new on every content length a record can have.  The    *)
(* negation of an i16 overflows for -32768: a build with overflow checks   *)
(* panics there, a build without them wraps.                               *)
(***************************************************************************)
NegOverflowsI16(n) == n = -32768

Builds == {"overflow-checks", "wrapping"}

Panic == [kind |-> "Panic"]

HeaderNewOutcome(type, request_id, len, build) ==
    IF NegOverflowsI16(AsI16(Min(len, MAX_LENGTH))) /\ build = "overflow-checks"
    THEN Panic
    ELSE [kind |-> "Ok", header |-> HeaderNew(type, request_id, len)]

\* A content of body_len bytes is about to be framed.
HeaderInit ==
    /\ keep_alive = FALSE
    /\ timeout = ClientNewTimeoutMs
    /\ inUse = {}
    /\ granted = [i \in IDs |-> 0]
    /\ op = "none"
    /\ pc = "idle"
    /\ id = 0
    /\ elapsed = 0
    /\ inUseAtCall = {}
    /\ params_len = 0
    /\ body_len \in 0..MAX_LENGTH
    /\ body_pos = 0
    /\ wire = <<>>
    /\ flushed = FALSE
    /\ nreads = 0
    /\ rx = <<>>
    /\ hdr = NoHeader
    /\ content = <<>>
    /\ stdout = <<>>
    /\ stderr = <<>>
    /\ fault = {}
    /\ rv = NoResult
    /\ result = NoResult

\* Header::new(RequestType::Stdin, 1, content) is evaluated.
HeaderNewCall ==
    /\ pc = "idle"
    /\ pc' = "done"
    /\ \E build \in Builds : result' = HeaderNewOutcome("Stdin", 1, body_len, build)
    /\ UNCHANGED <<keep_alive, timeout, inUse, granted, op, id, elapsed,
                   inUseAtCall, params_len, body_len, body_pos, wire, flushed,
                   nreads, rx, hdr, content, stdout, stderr, fault, rv>>

HeaderSpec == HeaderInit /\ [][HeaderNewCall]_vars

\* C11: for every content length in 0..65535 Header::new gives a header with
\* 0 <= padding_length < 8 and (content_length + padding_length) mod 8 = 0,
\* and raises no arithmetic overflow.
C11_Padding ==
    pc = "done" =>
        /\ result.kind = "Ok"
        /\ result.header.content_length = body_len
        /\ result.header.padding_length \in 0..7
        /\ (result.header.content_length + result.header.padding_length) % 8 = 0

(***************************************************************************)
(* meta.rs: ParamLength::new and ParamLength::content.  The u32 of the     *)
(* long form is kept as its tag bit (bit 31) and its low 31 bits.          *)
(***************************************************************************)
Low31(n) == (((n \div 65536) % 32768) * 65536) + (n % 65536)

ParamLengthNew_Le128(length) ==
    IF length <= 128
    THEN [form |-> "Short", bit31 |-> 0, value |-> length % 256]
    ELSE [form |-> "Long", bit31 |-> 1, value |-> Low31(length)]

ParamLengthNew(length) ==
    IF length < 128
    THEN [form |-> "Short", bit31 |-> 0, value |-> length % 256]
    ELSE [form |-> "Long", bit31 |-> 1, value |-> Low31(length)]

ParamLengthContent(l) ==
    IF l.form = "Short"
    THEN <<l.value>>
    ELSE <<(l.bit31 * 128) + (l.value \div 16777216),
           (l.value \div 65536) % 256,
           (l.value \div 256) % 256,
           l.value % 256>>

\* The lengths of the names and values that are encoded.
ParamLengths ==
    (0..300) \cup {65535, 65536, 16777215, 16777216, 2147483646, 2147483647}

\* A name or value of params_len bytes is about to be encoded.
ParamLengthInit ==
    /\ keep_alive = FALSE
    /\ timeout = ClientNewTimeoutMs
    /\ inUse = {}
    /\ granted = [i \in IDs |-> 0]
    /\ op = "none"
    /\ pc = "idle"
    /\ id = 0
    /\ elapsed = 0
    /\ inUseAtCall = {}
    /\ params_len \in ParamLengths
    /\ body_len = 0
    /\ body_pos = 0
    /\ wire = <<>>
    /\ flushed = FALSE
    /\ nreads = 0
    /\ rx = <<>>
    /\ hdr = NoHeader
    /\ content = <<>>
    /\ stdout = <<>>
    /\ stderr = <<>>
    /\ fault = {}
    /\ rv = NoResult
    /\ result = NoResult

\* ParamLength::new(length).content() is evaluated.
ParamLengthCall ==
    /\ pc = "idle"
    /\ pc' = "done"
    /\ content' = ParamLengthContent(ParamLengthNew(params_len))
    /\ UNCHANGED <<keep_alive, timeout, inUse, granted, op, id, elapsed,
                   inUseAtCall, params_len, body_len, body_pos, wire, flushed,
                   nreads, rx, hdr, stdout, stderr, fault, rv, result>>

ParamLengthSpec == ParamLengthInit /\ [][ParamLengthCall]_vars

\* The length a peer reads from an encoded length: one byte as it is, four
\* bytes big-endian with the tag bit cleared.
DecodeLength(bytes) ==
    IF Len(bytes) = 1
    THEN bytes[1]
    ELSE ((bytes[1] % 128) * 16777216) + (bytes[2] * 65536) + (bytes[3] * 256) + bytes[4]

\* C12: a length n < 128 is encoded as the one byte n, a length
\* 128 <= n < 2^31 as four big-endian bytes with bit 31 set and the low 31
\* bits equal to n; decoding either form gives back n.
C12_LengthEncoding ==
    pc = "done" =>
        /\ params_len < 128 => content = <<params_len>>
        /\ params_len >= 128 =>
               /\ Len(content) = 4
               /\ \A k \in 1..4 : content[k] \in 0..255
               /\ content[1] >= 128
        /\ DecodeLength(content) = params_len

C12_Witness ==
    /\ pc = "done"
    /\ params_len = 128
    /\ content = <<128, 0, 0, 128>>

\* C13: the BeginRequest record of a request is the header 01 01 id(2 bytes
\* big-endian) 00 08 00 00, then the content 00 01 flags 00 00 00 00 00 with
\* flags = 1 exactly when keep_alive is set, and no padding; for
\* keep_alive = true and id 1 the header is 01 01 00 01 00 08 00 00 and the
\* content 00 01 01 00 00 00 00 00.
C13_BeginRequestBytes ==
    \A k \in 1..Len(wire) :
        wire[k].type = "BeginRequest" =>
            /\ wire[k].header = <<1, 1, id \div 256, id % 256, 0, 8, 0, 0>>
            /\ wire[k].bytes = <<0, 1, IF keep_alive THEN 1 ELSE 0, 0, 0, 0, 0, 0>>
            /\ wire[k].padding_length = 0
            /\ (keep_alive /\ id = 1) =>
                   /\ wire[k].header = <<1, 1, 0, 1, 0, 8, 0, 0>>
                   /\ wire[k].bytes = <<0, 1, 1, 0, 0, 0, 0, 0>>

C13_Witness ==
    /\ keep_alive
    /\ id = 1
    /\ Len(wire) >= 1
    /\ wire[1].type = "BeginRequest"
    /\ wire[1].written = "all"
    /\ wire[1].header = <<1, 1, 0, 1, 0, 8, 0, 0>>
    /\ wire[1].bytes = <<0, 1, 1, 0, 0, 0, 0, 0>>

Phase(type) ==
    CASE type = "BeginRequest" -> 1
      [] type = "Params" -> 2
      [] type = "Stdin" -> 3
      [] OTHER -> 4

\* C14: within one execute the id is allocated first, the BeginRequest record
\* is the first record, the Params records and their terminator precede
\* every Stdin record, the flush follows the Stdin terminator, and nothing is
\* read from the stream before the flush.
C14_Order ==
    /\ \A j, k \in 1..Len(wire) : j < k => Phase(wire[j].type) <= Phase(wire[k].type)
    /\ wire # <<>> => (wire[1].type = "BeginRequest" /\ id # 0)
    /\ \A k \in 2..Len(wire) : wire[k].type \in {"Params", "Stdin"}
    /\ \A k \in 1..Len(wire) :
           wire[k].type = "Stdin" =>
               \E j \in 1..(k - 1) : wire[j].type = "Params" /\ wire[j].content_length = 0
    /\ flushed =>
           /\ wire # <<>>
           /\ wire[Len(wire)].type = "Stdin"
           /\ wire[Len(wire)].content_length = 0
    /\ nreads > 0 => flushed

C14_Witness ==
    /\ flushed
    /\ nreads > 0
    /\ params_len = 4
    /\ body_len = MAX_LENGTH + 1
    /\ Len(wire) = 5
    /\ wire[2].content_length = 4
    /\ wire[4].content_length = MAX_LENGTH

\* C15: when the allocation of execute fails, execute returns that error and
\* the stream is untouched: nothing written, nothing read, no flush, the body
\* not read, no id held or released.
C15_AllocFailure ==
    (op = "execute" /\ id = 0 /\ pc # "alloc") =>
        /\ pc \in {"done", "cancelled"}
        /\ pc = "done" => result = TimeoutError
        /\ wire = <<>>
        /\ nreads = 0
        /\ ~flushed
        /\ body_pos = 0
        /\ inUse = inUseAtCall

C15_Witness ==
    /\ Returned
    /\ id = 0
    /\ result = TimeoutError
    /\ body_len = MAX_LENGTH + 1
    /\ wire = <<>>

\* C16: a record of which the stream rejected the header, the content or the
\* padding makes write_record, and execute, fail with the I/O error.
C16_RejectedWriteFails ==
    /\ \A k \in 1..Len(wire) :
           wire[k].written # "all" =>
               /\ k = Len(wire)
               /\ rv = IoError
               /\ pc \in {"release_new", "done", "cancelled"}
    /\ (Returned /\ "write" \in fault) => result = IoError

UnexpectedTypes == RequestTypes \ {"Stdout", "Stderr", "EndRequest"}

IsPrefix(a, b) == Len(a) <= Len(b) /\ a = SubSeq(b, 1, Len(a))

\* C17: a record with the allocated id whose type is none of Stdout, Stderr,
\* EndRequest ends the loop with UnknownRequestType; it is not skipped, and
\* none of its bytes reaches a sink.
C17_UnexpectedType ==
    \A k \in 1..Len(rx) :
        (rx[k].request_id = id /\ rx[k].type \in UnexpectedTypes) =>
            /\ k = Len(rx)
            /\ rv = UnknownRequestType(rx[k].type)
            /\ pc \in {"release_resp", "done", "cancelled"}
            /\ pc = "done" => result = rv
            /\ IsPrefix(stdout, Concat(rx, "Stdout"))
            /\ IsPrefix(stderr, Concat(rx, "Stderr"))

C17_Witness ==
    /\ Returned
    /\ Len(rx) = 2
    /\ rx[1].type = "Stdout"
    /\ rx[2].type = "Params"
    /\ rx[2].request_id = id
    /\ rx[2].content # <<>>
    /\ result = UnknownRequestType("Params")
    /\ stdout = <<1, 11>>
    /\ stderr = <<>>

\* C18: when a sink accepts fewer bytes of a Stdout or Stderr record than it
\* was given, execute fails with UnexpectedEndOfOutput naming that channel,
\* the accepted and the supplied byte counts, and reads no further record.
C18_TruncatedWrite ==
    "sink_short" \in fault =>
        LET k == Len(rx)
            t == rx[k].type
            sink == IF t = "Stdout" THEN stdout ELSE stderr
            before == Concat(SubSeq(rx, 1, k - 1), t)
        IN  /\ t \in DataTypes
            /\ hdr = rx[k]
            /\ rv = UnexpectedEndOfOutput(id, t, Len(sink) - Len(before), Len(rx[k].content))
            /\ rv.written < rv.expected
            /\ pc \in {"release_resp", "done", "cancelled"}
            /\ pc = "done" => result = rv

C18_Witness ==
    /\ Returned
    /\ Len(rx) = 2
    /\ rx[1].type = "Stdout"
    /\ stdout = <<1, 11>>
    /\ stderr = <<2>>
    /\ result = UnexpectedEndOfOutput(id, "Stderr", 1, 2)

InFlight == Suspended \ {"alloc"}

\* C19: every record written during one execute carries the id allocated at
\* the start of that execute, and that id is in use from the first write
\* until the call returns.
C19_SameId ==
    /\ \A k \in 1..Len(wire) : wire[k].request_id = id /\ id \in IDs
    /\ (op = "execute" /\ pc \in InFlight) => id \in inUse

C19_Witness ==
    /\ op = "execute"
    /\ pc = "release_resp"
    /\ Len(wire) = 5
    /\ id = 2
    /\ inUse = {1, 2}
    /\ \A k \in 1..5 : wire[k].request_id = 2

(***************************************************************************)
(* The response loop under a caller that sends empty requests and never    *)
(* drops the call, a stream that answers every read, and a peer that sends *)
(* at most MaxRx Stdout/Stderr records before it ends or closes.           *)
(***************************************************************************)
ExecuteEmpty == StartCall("execute", 0, 0)

NextResp ==
    \/ ExecuteEmpty
    \/ AllocGrant
    \/ WriteBeginRequest
    \/ WriteParams
    \/ WriteParamsEnd
    \/ WriteStdin
    \/ WriteStdinEnd
    \/ Flush
    \/ ReleaseNewRequest
    \/ ReadHeader
    \/ ReadContent
    \/ WriteSink
    \/ ReadEndRequest
    \/ ReleaseResponse

RespSpec ==
    /\ Init
    /\ [][NextResp]_vars
    /\ WF_vars(ReadHeader)
    /\ WF_vars(ReadContent)
    /\ WF_vars(WriteSink)
    /\ WF_vars(ReadEndRequest)
    /\ WF_vars(ReleaseResponse)

LoopEnded == op = "execute" /\ flushed /\ pc \in {"release_resp", "done"}

\* C20: the response loop ends only on an EndRequest record with the
\* allocated id or on an error (read failure, other id, unexpected type,
\* sink failure); a Stdout or Stderr record that its sink takes whole, also
\* one of no bytes, does not end it.  So execute returns once the peer has
\* sent the EndRequest record or closed the stream, and not before.
C20_LoopEnd ==
    /\ [](LoopEnded =>
            \/ hdr.type = "EndRequest" /\ hdr.request_id = id
            \/ rv = IoError /\ "read" \in fault
            \/ rv = ResponseNotFound(id) /\ hdr.request_id # id
            \/ rv = UnknownRequestType(hdr.type) /\ hdr.type \in UnexpectedTypes
            \/ /\ hdr.type \in DataTypes
               /\ rv.kind = "Err"
               /\ fault \cap {"sink_error", "sink_short"} # {})
    /\ (pc = "read_header") ~> (pc = "done")

C20_Witness ==
    /\ Returned
    /\ Len(rx) = 3
    /\ rx[1].type = "Stdout" /\ rx[1].content = <<>>
    /\ rx[2].type = "Stderr" /\ rx[2].content = <<>>
    /\ rx[3].type = "EndRequest" /\ rx[3].request_id = id
    /\ fault = {}
    /\ result = [kind |-> "Ok"]
====
